---- MODULE Spec2Model ----
(***************************************************************************)
(* A model of skdata.py: the I2 localisation table decoder                 *)
(* (parse_i2_asset_file), the CSV hand-over (write_i2_csv and the reading  *)
(* half of load_language_map), the alias resolver                          *)
(* (load_language_map.resolve), the field sanitizer (sanitize_text) and    *)
(* the key classifier (build_dictionaries).                                *)
(*                                                                         *)
(* Text is a sequence of code points, a byte string a sequence of numbers  *)
(* 0..255.  Word values stay below 2^31: every generated buffer keeps the  *)
(* top byte of each 4-byte word below 128.  Bytes 224..244 (lead bytes of  *)
(* 3- and 4-byte UTF-8 sequences) are not in any generated buffer.         *)
(***************************************************************************)
EXTENDS Integers, Sequences, FiniteSets, TLC

VARIABLES
    exists,          \* file_path.exists()
    data,            \* the bytes of the .dat file
    filter_patterns, \* the exclusion patterns (the empty sequence: none given)
    pc,              \* position in the program
    pos,             \* the read offset
    pos0,            \* the read offset when the current record-loop iteration began
    key_len, key, fields_count, fields, nfield,
    records,         \* the decoder's output list
    outcome,         \* "running", "returned", or the name of the exception raised
    offsets,         \* history: the reads made, each [at, kind], in order
    csv_rows,        \* the rows of the CSV file written by write_i2_csv
    raw_map, resolved_map,
    todo,            \* the ids the eager pass has still to visit, in iteration order
    stack,           \* the active resolve() frames, innermost last
    visited,         \* the visited set of the current top-level resolve call
    ret,             \* the value the last resolve() frame returned
    inserted,        \* the keys of resolved_map in the order they were inserted
    input, sanitized, \* sanitize_text: its argument and what it returned
    items,           \* build_dictionaries: the keys lang_map.items() has still to yield
    weapons_map, buff_names, buff_infos, challenge_names, challenge_titles,
    challenge_descs, materials, plant_ids, pets, characters,
    run,             \* 1, or 2 when the operation is being run a second time
    ref              \* what the result is compared with: the records that were
                     \* encoded, or what the first run produced

decVars == <<exists, data, filter_patterns, pc, pos, pos0, key_len, key,
             fields_count, fields, nfield, records, outcome, offsets>>
decVarsButPc == <<exists, data, filter_patterns, pos, pos0, key_len, key,
                  fields_count, fields, nfield, records, outcome, offsets>>
resVars == <<csv_rows, raw_map, resolved_map, todo, stack, visited, ret, inserted>>
sanVars == <<input, sanitized>>
dictVars == <<items, weapons_map, buff_names, buff_infos, challenge_names,
              challenge_titles, challenge_descs, materials, plant_ids, pets,
              characters>>
vars == <<decVars, resVars, run, ref, sanVars, dictVars>>

----------------------------------------------------------------------------
(* Bounds of the model *)

\* number of 4-byte words after the header in an adversarial buffer
MaxWords == 4
\* number of records in a hand-constructed buffer
MaxRecords == 2

(* Program constants *)
HeaderLen == 60
WordLen == 4

----------------------------------------------------------------------------
(* Characters *)
LF == 10
CR == 13
BACKSLASH == 92
LBRACE == 123
RBRACE == 125

\* str.isspace() on the code points below 2048
Whitespace == (9..13) \cup (28..32) \cup {133, 160}

RECURSIVE lstrip(_)
lstrip(s) ==
    IF s # <<>> /\ s[1] \in Whitespace THEN lstrip(Tail(s)) ELSE s

RECURSIVE rstrip(_)
rstrip(s) ==
    IF s # <<>> /\ s[Len(s)] \in Whitespace
    THEN rstrip(SubSeq(s, 1, Len(s) - 1)) ELSE s

\* str.strip()
strip(s) == rstrip(lstrip(s))

\* s.startswith(p)
startswith(s, p) == Len(s) >= Len(p) /\ SubSeq(s, 1, Len(p)) = p

\* s.endswith(p)
endswith(s, p) == Len(s) >= Len(p) /\ SubSeq(s, Len(s) - Len(p) + 1, Len(s)) = p

\* s.replace(old, new), old non-empty: leftmost non-overlapping occurrences
RECURSIVE replace(_, _, _)
replace(s, old, new) ==
    IF s = <<>> THEN <<>>
    ELSE IF startswith(s, old)
         THEN new \o replace(SubSeq(s, Len(old) + 1, Len(s)), old, new)
         ELSE <<s[1]>> \o replace(Tail(s), old, new)

ESCAPED_N == <<BACKSLASH, 110>>

\* the lone CR replaced before the CR LF
sanitize_text_crFirst(text) ==
    strip(replace(replace(replace(text, <<CR>>, ESCAPED_N), <<CR, LF>>, ESCAPED_N),
                  <<LF>>, ESCAPED_N))

\* sanitize_text: the three replacements in the order of the code, then strip
sanitize_text(text) ==
    strip(replace(replace(replace(text, <<CR, LF>>, ESCAPED_N), <<CR>>, ESCAPED_N),
                  <<LF>>, ESCAPED_N))

\* str < str: by code point, a proper prefix first
RECURSIVE StrLess(_, _)
StrLess(a, b) ==
    IF b = <<>> THEN FALSE
    ELSE IF a = <<>> THEN TRUE
    ELSE IF a[1] # b[1] THEN a[1] < b[1]
    ELSE StrLess(Tail(a), Tail(b))

----------------------------------------------------------------------------
(* Bytes *)

\* data[a:b] of Python: clamped to the buffer, empty when a is past the end
Slice(d, a, b) ==
    LET hi == IF b < Len(d) THEN b ELSE Len(d)
    IN  IF a >= hi THEN <<>> ELSE SubSeq(d, a + 1, hi)

\* int.from_bytes(bs, "little"), of as many bytes as the slice holds
RECURSIVE from_bytes(_)
from_bytes(bs) ==
    IF bs = <<>> THEN 0 ELSE bs[1] + 256 * from_bytes(Tail(bs))

\* int.from_bytes(data[p : p + 4], "little")
ReadWord(d, p) == from_bytes(Slice(d, p, p + WordLen))

\* the alignment left out
Align_none(p) == p

\* if pos % 4: pos += 4 - (pos % 4)
Align(p) == IF p % WordLen # 0 THEN p + (WordLen - (p % WordLen)) ELSE p

IsLead2(b) == b >= 194 /\ b <= 223
IsCont(b) == b >= 128 /\ b <= 191

\* bytes.decode("utf-8") succeeds
RECURSIVE Utf8Valid(_)
Utf8Valid(bs) ==
    IF bs = <<>> THEN TRUE
    ELSE IF bs[1] < 128 THEN Utf8Valid(Tail(bs))
    ELSE IF IsLead2(bs[1]) /\ Len(bs) >= 2 /\ IsCont(bs[2])
         THEN Utf8Valid(Tail(Tail(bs)))
         ELSE FALSE

\* bytes.decode("utf-8", errors="ignore"): an undecodable byte is dropped
RECURSIVE Utf8Ignore(_)
Utf8Ignore(bs) ==
    IF bs = <<>> THEN <<>>
    ELSE IF bs[1] < 128 THEN <<bs[1]>> \o Utf8Ignore(Tail(bs))
    ELSE IF IsLead2(bs[1]) /\ Len(bs) >= 2 /\ IsCont(bs[2])
         THEN <<(bs[1] - 192) * 64 + (bs[2] - 128)>> \o Utf8Ignore(Tail(Tail(bs)))
         ELSE Utf8Ignore(Tail(bs))

\* bytes.decode("latin-1", errors="ignore"): every byte is its own code point
Latin1(bs) == bs

\* lines 224-227: the key text
DecodeKey(key_bytes) == strip(Utf8Ignore(key_bytes))

\* the field text without the except clause of lines 257-258
DecodeField_noFallback(raw, field_len) ==
    IF field_len > 0
    THEN IF Utf8Valid(raw)
         THEN [raised |-> "", text |-> Utf8Ignore(raw)]
         ELSE [raised |-> "UnicodeDecodeError", text |-> <<>>]
    ELSE [raised |-> "", text |-> <<>>]

\* lines 253-260: the field text; raised names an exception that escapes
DecodeField(raw, field_len) ==
    IF field_len > 0
    THEN IF Utf8Valid(raw)
         THEN [raised |-> "", text |-> Utf8Ignore(raw)]
         ELSE [raised |-> "", text |-> Latin1(raw)]
    ELSE [raised |-> "", text |-> <<>>]

----------------------------------------------------------------------------
(* Exclusion patterns: a pattern is the text of a regular expression made   *)
(* of literal characters only.                                              *)

\* re.Pattern.match(key): the pattern matches at the start of key
PatternMatch(p, k) == startswith(k, p)

\* line 270: not filter_patterns or not any(p.match(key) for p in filter_patterns)
Emitted(pats, k) ==
    pats = <<>> \/ ~ \E i \in 1..Len(pats) : PatternMatch(pats[i], k)

----------------------------------------------------------------------------
(* records.sort(key=lambda r: r[0]): a stable sort by key *)

RECURSIVE InsertByKey(_, _)
InsertByKey(sorted, r) ==
    IF sorted = <<>> THEN <<r>>
    ELSE IF StrLess(r.key, sorted[Len(sorted)].key)
         THEN InsertByKey(SubSeq(sorted, 1, Len(sorted) - 1), r) \o <<sorted[Len(sorted)]>>
         ELSE sorted \o <<r>>

RECURSIVE SortByKey(_)
SortByKey(rs) ==
    IF rs = <<>> THEN <<>>
    ELSE InsertByKey(SortByKey(SubSeq(rs, 1, Len(rs) - 1)), rs[Len(rs)])

----------------------------------------------------------------------------
(* parse_i2_asset_file, one action per block of the record loop *)

Break == pc' = "sort"

\* an entry of the history of reads
Read(at, kind) == [at |-> at, kind |-> kind]

\* lines 193-198: the existence check, read_bytes, records = [], pos = 60
Start ==
    /\ pc = "start"
    /\ IF exists
       THEN /\ pos' = HeaderLen
            /\ pos0' = HeaderLen
            /\ pc' = "loop"
            /\ outcome' = outcome
       ELSE /\ outcome' = "FileNotFoundError"
            /\ pc' = "done"
            /\ UNCHANGED <<pos, pos0>>
    /\ records' = <<>>
    /\ UNCHANGED <<exists, data, filter_patterns, key_len, key, fields_count,
                   fields, nfield, offsets>>

\* lines 200-205: the loop test, the alignment and the first bounds check
LoopTest ==
    /\ pc = "loop"
    /\ IF pos < Len(data)
       THEN /\ pos0' = pos
            /\ pos' = Align(pos)
            /\ IF pos' + WordLen > Len(data) THEN Break ELSE pc' = "keylen"
       ELSE /\ pc' = "sort"
            /\ UNCHANGED <<pos, pos0>>
    /\ UNCHANGED <<exists, data, filter_patterns, key_len, key, fields_count,
                   fields, nfield, records, outcome, offsets>>

\* lines 207-210: the key length
ReadKeyLen ==
    /\ pc = "keylen"
    /\ key_len' = ReadWord(data, pos)
    /\ offsets' = Append(offsets, Read(pos, "key_len"))
    /\ pos' = pos + WordLen
    /\ pc' = IF key_len' = 0 THEN "zeros" ELSE "key"
    /\ UNCHANGED <<exists, data, filter_patterns, pos0, key, fields_count,
                   fields, nfield, records, outcome>>

\* the condition of the inner while without its bound
MoreZeros_unbounded == ReadWord(data, pos) = 0

\* lines 212-213: the condition of the inner while
MoreZeros == pos < Len(data) /\ ReadWord(data, pos) = 0

\* lines 212-215: one turn of the zero-skipping loop
SkipZero ==
    /\ pc = "zeros"
    /\ MoreZeros
    /\ offsets' = Append(offsets, Read(pos, "zero"))
    /\ pos' = pos + WordLen
    /\ UNCHANGED <<exists, data, filter_patterns, pc, pos0, key_len, key,
                   fields_count, fields, nfield, records, outcome>>

\* lines 212-213, 216-221: the inner while ends (its condition, when the
\* buffer is not exhausted, has read the word at pos), then the key length
\* is read again
ZerosEnd ==
    /\ pc = "zeros"
    /\ ~MoreZeros
    /\ LET probe == IF pos < Len(data) THEN <<Read(pos, "zero")>> ELSE <<>>
       IN  IF pos >= Len(data) - WordLen
           THEN /\ Break
                /\ offsets' = offsets \o probe
                /\ UNCHANGED <<pos, key_len>>
           ELSE /\ key_len' = ReadWord(data, pos)
                /\ offsets' = offsets \o probe \o <<Read(pos, "key_len")>>
                /\ pos' = pos + WordLen
                /\ IF key_len' = 0 THEN Break ELSE pc' = "key"
    /\ UNCHANGED <<exists, data, filter_patterns, pos0, key, fields_count,
                   fields, nfield, records, outcome>>

\* lines 223-234: the key, the alignment and the bounds check before the count
ReadKey ==
    /\ pc = "key"
    /\ key' = DecodeKey(Slice(data, pos, pos + key_len))
    /\ offsets' = Append(offsets, Read(pos, "key"))
    /\ pos' = Align(pos + key_len)
    /\ IF pos' + WordLen > Len(data) THEN Break ELSE pc' = "count"
    /\ UNCHANGED <<exists, data, filter_patterns, pos0, key_len, fields_count,
                   fields, nfield, records, outcome>>

\* lines 235-246: the count, or the zero sentinel and then the count
ReadCount ==
    /\ pc = "count"
    /\ LET start_count == ReadWord(data, pos)
           p1 == pos + WordLen
       IN  IF start_count = 0
           THEN IF p1 + WordLen > Len(data)
                THEN /\ Break
                     /\ pos' = p1
                     /\ offsets' = Append(offsets, Read(pos, "count"))
                     /\ UNCHANGED <<fields_count, fields, nfield>>
                ELSE /\ fields_count' = ReadWord(data, p1)
                     /\ offsets' = offsets \o <<Read(pos, "count"), Read(p1, "count")>>
                     /\ pos' = p1 + WordLen
                     /\ fields' = <<>>
                     /\ nfield' = 0
                     /\ pc' = "field"
           ELSE /\ fields_count' = start_count
                /\ offsets' = Append(offsets, Read(pos, "count"))
                /\ pos' = p1
                /\ fields' = <<>>
                /\ nfield' = 0
                /\ pc' = "field"
    /\ UNCHANGED <<exists, data, filter_patterns, pos0, key_len, key, records,
                   outcome>>

\* lines 247-249: the for loop has a field to read
MoreFields == nfield < fields_count /\ pos + WordLen <= Len(data)

\* lines 247-265: one field
ReadField ==
    /\ pc = "field"
    /\ MoreFields
    /\ LET field_len == ReadWord(data, pos)
           p1 == pos + WordLen
           d == DecodeField(Slice(data, p1, p1 + field_len), field_len)
       IN  IF d.raised # ""
           THEN /\ outcome' = d.raised
                /\ pc' = "done"
                /\ UNCHANGED <<pos, fields, nfield, offsets>>
           ELSE /\ fields' = Append(fields, sanitize_text(d.text))
                /\ offsets' = offsets \o
                      (IF field_len > 0
                       THEN <<Read(pos, "field_len"), Read(p1, "field")>>
                       ELSE <<Read(pos, "field_len")>>)
                /\ pos' = Align(p1 + field_len)
                /\ nfield' = nfield + 1
                /\ UNCHANGED <<pc, outcome>>
    /\ UNCHANGED <<exists, data, filter_patterns, pos0, key_len, key,
                   fields_count, records>>

\* lines 267-271: the terminator is skipped, the record kept unless excluded
EndRecord ==
    /\ pc = "field"
    /\ ~MoreFields
    /\ pos' = IF pos + WordLen <= Len(data) THEN pos + WordLen ELSE pos
    /\ records' = IF Emitted(filter_patterns, key)
                  THEN Append(records, [key |-> key, fields |-> fields])
                  ELSE records
    /\ pc' = "loop"
    /\ UNCHANGED <<exists, data, filter_patterns, pos0, key_len, key,
                   fields_count, fields, nfield, outcome, offsets>>

\* lines 273-274: the sort and the return
Finish ==
    /\ pc = "sort"
    /\ records' = SortByKey(records)
    /\ outcome' = "returned"
    /\ pc' = "done"
    /\ UNCHANGED <<exists, data, filter_patterns, pos, pos0, key_len, key,
                   fields_count, fields, nfield, offsets>>

parse_i2_asset_file ==
    \/ Start
    \/ LoopTest
    \/ ReadKeyLen
    \/ SkipZero
    \/ ZerosEnd
    \/ ReadKey
    \/ ReadCount
    \/ ReadField
    \/ EndRecord
    \/ Finish

----------------------------------------------------------------------------
(* Input buffers *)

\* a 4-byte little-endian word
Word(n) == <<n % 256, (n \div 256) % 256, (n \div 65536) % 256, n \div 16777216>>

\* a declared length far larger than any buffer
Huge == 2130706432

RECURSIVE Concat(_)
Concat(ss) == IF ss = <<>> THEN <<>> ELSE ss[1] \o Concat(Tail(ss))

Zeros(n) == [i \in 1..n |-> 0]

Header == Zeros(HeaderLen)

\* b followed by padding to the next multiple of 4
Padded(b, padByte) == b \o [i \in 1..((WordLen - (Len(b) % WordLen)) % WordLen) |-> padByte]

\* the words an adversarial buffer is made of: lengths 0, 1, 2 and Huge, the
\* text "a" and a word of an undecodable byte, a CR and a letter
Chunks ==
    {Word(0), Word(1), Word(2), Word(Huge), <<97, 0, 0, 0>>, <<255, CR, 98, 0>>}

ChunkSeqs == UNION {[1..n -> Chunks] : n \in 0..MaxWords}

\* a buffer with its last c bytes cut off
CutTail(b, c) == SubSeq(b, 1, Len(b) - c)

AdversarialBuffers ==
    {CutTail(Header \o Concat(cs), c) : cs \in ChunkSeqs, c \in 0..(WordLen - 1)}

\* UTF-8 of a text of code points below 2048
RECURSIVE Utf8Encode(_)
Utf8Encode(s) ==
    IF s = <<>> THEN <<>>
    ELSE (IF s[1] < 128 THEN <<s[1]>>
          ELSE <<192 + (s[1] \div 64), 128 + (s[1] % 64)>>) \o Utf8Encode(Tail(s))

\* a field of the protocol of section 4.1: length, payload, padding
EncodeField(f, padByte) ==
    Word(Len(Utf8Encode(f))) \o Padded(Utf8Encode(f), padByte)

\* a record of the protocol: key length, key, padding, the count (after a zero
\* sentinel when viaSentinel), the fields, the terminator
EncodeRecord(r, viaSentinel, padByte, term) ==
    Word(Len(Utf8Encode(r.key))) \o Padded(Utf8Encode(r.key), padByte)
    \o (IF viaSentinel THEN Word(0) ELSE <<>>)
    \o Word(Len(r.fields))
    \o Concat([i \in 1..Len(r.fields) |-> EncodeField(r.fields[i], padByte)])
    \o Word(term)

\* a hand-constructed buffer: es is a sequence of [rec, viaSentinel]
EncodeBuffer(es, padByte, term) ==
    Header \o Concat([i \in 1..Len(es) |->
                        EncodeRecord(es[i].rec, es[i].viaSentinel, padByte, term)])

Rec(k, fs) == [key |-> k, fields |-> fs]

\* the keys and field lists of the hand-constructed records: "b", "ab", e-acute;
\* no field, "A", and the empty text followed by "{b}" and e-acute
KeysRT == {<<98>>, <<97, 98>>, <<233>>}
FieldListsRT == {<<>>, <<<<65>>>>, <<<<>>, <<LBRACE, 98, RBRACE, 233>>>>}

\* a record without fields has its count behind the sentinel
EncodingsRT ==
    {e \in [rec : {Rec(k, fs) : k \in KeysRT, fs \in FieldListsRT},
            viaSentinel : BOOLEAN] :
        e.rec.fields = <<>> => e.viaSentinel}

EncodingSeqs == UNION {[1..n -> EncodingsRT] : n \in 0..MaxRecords}

PadBytes == {0, 120}
Terminators == {0, 1}

\* well-formed buffers of three records, the count of each behind the sentinel
\* or not, and a buffer whose one field is not UTF-8 and holds a CR LF
SampleBuffers ==
    {EncodeBuffer(<<[rec |-> Rec(<<97, 98>>, <<<<65>>, <<>>>>), viaSentinel |-> s],
                    [rec |-> Rec(<<98>>, <<>>), viaSentinel |-> TRUE],
                    [rec |-> Rec(<<233>>, <<<<66, 67, 68, 69, 70>>>>), viaSentinel |-> ~s]>>,
                  0, 0) : s \in BOOLEAN}
    \cup {Header \o Word(1) \o <<107, 0, 0, 0>> \o Word(1)
                 \o Word(3) \o <<255, CR, LF, 0>> \o Word(0)}

\* the sample buffers cut at every byte offset, the header included
TruncatedBuffers ==
    UNION {{SubSeq(b, 1, n) : n \in 0..Len(b)} : b \in SampleBuffers}

\* the values of the variables the decoder does not use
ResolverIdle ==
    /\ csv_rows = <<>>
    /\ raw_map = <<>>
    /\ resolved_map = <<>>
    /\ todo = <<>>
    /\ stack = <<>>
    /\ visited = {}
    /\ ret = <<>>
    /\ inserted = <<>>

\* sanitize_text not called on its own
SanitizerIdle ==
    /\ input = <<>>
    /\ sanitized = <<>>

\* build_dictionaries not called: no dictionary made yet
ClassifierIdle ==
    /\ items = <<>>
    /\ weapons_map = <<>>
    /\ buff_names = <<>>
    /\ buff_infos = <<>>
    /\ challenge_names = <<>>
    /\ challenge_titles = <<>>
    /\ challenge_descs = <<>>
    /\ materials = <<>>
    /\ plant_ids = <<>>
    /\ pets = <<>>
    /\ characters = <<>>

\* the decoder about to be called on buf with patterns pats
DecoderAt(ex, buf, pats) ==
    /\ exists = ex
    /\ data = buf
    /\ filter_patterns = pats
    /\ pc = "start"
    /\ pos = 0
    /\ pos0 = 0
    /\ key_len = 0
    /\ key = <<>>
    /\ fields_count = 0
    /\ fields = <<>>
    /\ nfield = 0
    /\ records = <<>>
    /\ outcome = "running"
    /\ offsets = <<>>

----------------------------------------------------------------------------
(* The decoder on any buffer *)

InitDecode ==
    /\ \E ex \in BOOLEAN, buf \in AdversarialBuffers \cup TruncatedBuffers :
          DecoderAt(ex, buf, <<>>)
    /\ ResolverIdle
    /\ run = 1
    /\ SanitizerIdle
    /\ ClassifierIdle
    /\ ref = <<>>

NextDecode ==
    \/ Start /\ UNCHANGED <<resVars, run, ref, sanVars, dictVars>>
    \/ LoopTest /\ UNCHANGED <<resVars, run, ref, sanVars, dictVars>>
    \/ ReadKeyLen /\ UNCHANGED <<resVars, run, ref, sanVars, dictVars>>
    \/ SkipZero /\ UNCHANGED <<resVars, run, ref, sanVars, dictVars>>
    \/ ZerosEnd /\ UNCHANGED <<resVars, run, ref, sanVars, dictVars>>
    \/ ReadKey /\ UNCHANGED <<resVars, run, ref, sanVars, dictVars>>
    \/ ReadCount /\ UNCHANGED <<resVars, run, ref, sanVars, dictVars>>
    \/ ReadField /\ UNCHANGED <<resVars, run, ref, sanVars, dictVars>>
    \/ EndRecord /\ UNCHANGED <<resVars, run, ref, sanVars, dictVars>>
    \/ Finish /\ UNCHANGED <<resVars, run, ref, sanVars, dictVars>>

SpecDecode == InitDecode /\ [][NextDecode]_vars

----------------------------------------------------------------------------
(* write_i2_csv and the reading loop of load_language_map *)

\* the file is written with newline="" and read in text mode with universal
\* newlines: a CR LF or a CR inside a quoted cell is read back as LF
UniversalNewlines(cell) == replace(replace(cell, <<CR, LF>>, <<LF>>), <<CR>>, <<LF>>)

\* lines 434-435: writer.writerow([key] + fields), one row per record
CsvRow(r) == <<r.key>> \o r.fields

\* csv.DictReader over the file: the cells of a data row, as read back
ReadRow(row) == [i \in 1..Len(row) |-> UniversalNewlines(row[i])]

\* row.get("English", ""): DictReader gives a row without that cell None
HasEnglish(row) == Len(row) >= 2

\* lines 451-454 over the rows in order: the raw map, the order its ids were
\* first inserted in, and the exception raised by None.strip(), if any
RECURSIVE ReadRows(_, _, _)
ReadRows(rows, m, order) ==
    IF rows = <<>> THEN [raised |-> "", map |-> m, order |-> order]
    ELSE LET row == ReadRow(rows[1])
             rid == strip(row[1])
         IN  IF ~HasEnglish(row)
             THEN [raised |-> "AttributeError", map |-> m, order |-> order]
             ELSE ReadRows(Tail(rows),
                           [x \in DOMAIN m \cup {rid} |->
                               IF x = rid THEN strip(row[2]) ELSE m[x]],
                           IF rid \in DOMAIN m THEN order ELSE Append(order, rid))

\* lines 423-438
write_i2_csv ==
    /\ pc = "done"
    /\ outcome = "returned"
    /\ csv_rows' = [i \in 1..Len(records) |-> CsvRow(records[i])]
    /\ pc' = "written"
    /\ UNCHANGED <<exists, data, filter_patterns, pos, pos0, key_len, key,
                   fields_count, fields, nfield, records, outcome, offsets,
                   raw_map, resolved_map, todo, stack, visited, ret, inserted>>

\* lines 446-454
ReadCsv ==
    /\ pc = "written"
    /\ LET r == ReadRows(csv_rows, <<>>, <<>>)
       IN  IF r.raised # ""
           THEN /\ outcome' = r.raised
                /\ pc' = "failed"
                /\ UNCHANGED <<raw_map, todo>>
           ELSE /\ raw_map' = r.map
                /\ todo' = r.order
                /\ pc' = "eager"
                /\ outcome' = "running"
    /\ resolved_map' = <<>>
    /\ inserted' = <<>>
    /\ UNCHANGED <<exists, data, filter_patterns, pos, pos0, key_len, key,
                   fields_count, fields, nfield, records, offsets,
                   csv_rows, stack, visited, ret>>

----------------------------------------------------------------------------
(* load_language_map.resolve and the eager pass *)

\* "[Cyclic alias: "
CyclicPrefix == <<91, 67, 121, 99, 108, 105, 99, 32, 97, 108, 105, 97, 115, 58, 32>>

\* the sentinel without the id
CyclicSentinel_noId(k) == CyclicPrefix \o <<93>>

\* line 462: f"[Cyclic alias: {key}]"
CyclicSentinel(k) == CyclicPrefix \o k \o <<93>>

\* line 466: val.startswith("{") and val.endswith("}")
IsAlias(val) == startswith(val, <<LBRACE>>) /\ endswith(val, <<RBRACE>>)

\* line 467: val[1:-1]
AliasRef(val) == SubSeq(val, 2, Len(val) - 1)

\* raw_map.get(key, key)
RawGet_keyDefault(m, k) == IF k \in DOMAIN m THEN m[k] ELSE k

\* line 465: raw_map.get(key, "")
RawGet(m, k) == IF k \in DOMAIN m THEN m[k] ELSE <<>>

\* resolved_map[key] = value
Store(m, k, v) == [x \in DOMAIN m \cup {k} |-> IF x = k THEN v ELSE m[x]]

\* the order of a dict's keys after d[k] = ...: a new key goes last, a key
\* already there keeps its place
KeyOrder(order, k) ==
    IF \E i \in 1..Len(order) : order[i] = k THEN order ELSE Append(order, k)

\* the key not added
MarkVisited_none(vis, k) == vis

\* line 463: visited.add(key)
MarkVisited(vis, k) == vis \cup {k}

Top == stack[Len(stack)]
Pop == SubSeq(stack, 1, Len(stack) - 1)

\* lines 476-477: the next id of the eager pass is handed to resolve(k)
ResolveNext ==
    /\ pc = "eager"
    /\ todo # <<>>
    /\ stack' = <<Head(todo)>>
    /\ todo' = Tail(todo)
    /\ visited' = {}
    /\ pc' = "enter"
    /\ UNCHANGED <<decVarsButPc, csv_rows, raw_map, resolved_map, ret, inserted,
                   run, ref, sanVars, dictVars>>

\* lines 457-468, 471-473: the body of resolve(key) up to its recursive call
ResolveEnter ==
    /\ pc = "enter"
    /\ LET k == Top
           val == RawGet(raw_map, k)
       IN  IF k \in DOMAIN resolved_map
           THEN /\ ret' = resolved_map[k]
                /\ stack' = Pop
                /\ pc' = "leave"
                /\ UNCHANGED <<visited, resolved_map, inserted>>
           ELSE IF k \in visited
           THEN /\ ret' = CyclicSentinel(k)
                /\ stack' = Pop
                /\ pc' = "leave"
                /\ UNCHANGED <<visited, resolved_map, inserted>>
           ELSE /\ visited' = MarkVisited(visited, k)
                /\ IF IsAlias(val)
                   THEN /\ stack' = Append(stack, AliasRef(val))
                        /\ UNCHANGED <<pc, ret, resolved_map, inserted>>
                   ELSE /\ resolved_map' = Store(resolved_map, k, val)
                        /\ inserted' = KeyOrder(inserted, k)
                        /\ ret' = val
                        /\ stack' = Pop
                        /\ pc' = "leave"
    /\ UNCHANGED <<decVarsButPc, csv_rows, raw_map, todo, run, ref, sanVars, dictVars>>

\* lines 468-470: the recursive call has returned into the frame that made it;
\* with no frame left the top-level call has returned to the eager pass
ResolveLeave ==
    /\ pc = "leave"
    /\ IF stack = <<>>
       THEN /\ pc' = "eager"
            /\ UNCHANGED <<resolved_map, inserted, stack>>
       ELSE /\ resolved_map' = Store(resolved_map, Top, ret)
            /\ inserted' = KeyOrder(inserted, Top)
            /\ stack' = Pop
            /\ UNCHANGED pc
    /\ UNCHANGED <<decVarsButPc, csv_rows, raw_map, todo, visited, ret, run, ref, sanVars, dictVars>>

\* line 479: return resolved_map
ResolveDone ==
    /\ pc = "eager"
    /\ todo = <<>>
    /\ pc' = "loaded"
    /\ UNCHANGED <<decVarsButPc, resVars, run, ref, sanVars, dictVars>>

----------------------------------------------------------------------------
(* The resolver on any raw map, its ids visited in any order *)

\* number of ids in a raw map
MaxIds == 3

\* the ids "", "a", "b", "c"
IdPool == {<<>>, <<97>>, <<98>>, <<99>>}

\* the raw values: aliases of the pool's ids, of the missing id "z" and of the
\* empty id, and the plain text "hi"
RawValues ==
    {<<LBRACE>> \o k \o <<RBRACE>> : k \in IdPool \cup {<<122>>}} \cup {<<104, 105>>}

RawMaps ==
    UNION {[ids -> RawValues] : ids \in {s \in SUBSET IdPool : Cardinality(s) <= MaxIds}}

\* the orders a set of ids can be iterated in
Perms(S) ==
    {p \in [1..Cardinality(S) -> S] : \A i, j \in 1..Cardinality(S) : p[i] = p[j] => i = j}

\* the values of the variables the resolver does not use
DecoderIdle ==
    /\ exists = TRUE
    /\ data = <<>>
    /\ filter_patterns = <<>>
    /\ pos = 0
    /\ pos0 = 0
    /\ key_len = 0
    /\ key = <<>>
    /\ fields_count = 0
    /\ fields = <<>>
    /\ nfield = 0
    /\ records = <<>>
    /\ outcome = "running"
    /\ offsets = <<>>

\* the eager pass about to begin on raw map m in iteration order p
ResolverAt(m, p) ==
    /\ csv_rows = <<>>
    /\ raw_map = m
    /\ resolved_map = <<>>
    /\ todo = p
    /\ stack = <<>>
    /\ visited = {}
    /\ ret = <<>>
    /\ inserted = <<>>
    /\ pc = "eager"

InitResolve ==
    /\ DecoderIdle
    /\ \E m \in RawMaps : \E p \in Perms(DOMAIN m) : ResolverAt(m, p)
    /\ run = 1
    /\ SanitizerIdle
    /\ ClassifierIdle
    /\ ref = <<>>

NextResolve ==
    \/ ResolveNext
    \/ ResolveEnter
    \/ ResolveLeave
    \/ ResolveDone

SpecResolve == InitResolve /\ [][NextResolve]_vars

FairSpecResolve == SpecResolve /\ WF_vars(NextResolve)

----------------------------------------------------------------------------
(* The eager pass run twice over the same raw map, in two orders *)

\* the pass has returned; the same raw map is resolved again from an empty
\* cache, its ids visited in any order
ResolveAgain ==
    /\ pc = "loaded"
    /\ run = 1
    /\ run' = 2
    /\ ref' = resolved_map
    /\ \E p \in Perms(DOMAIN raw_map) : todo' = p
    /\ resolved_map' = <<>>
    /\ stack' = <<>>
    /\ visited' = {}
    /\ ret' = <<>>
    /\ inserted' = <<>>
    /\ pc' = "eager"
    /\ UNCHANGED <<decVarsButPc, csv_rows, raw_map, sanVars, dictVars>>

NextResolveTwice ==
    \/ ResolveNext
    \/ ResolveEnter
    \/ ResolveLeave
    \/ ResolveDone
    \/ ResolveAgain

SpecResolveTwice == InitResolve /\ [][NextResolveTwice]_vars

----------------------------------------------------------------------------
(* What the specification says of alias chains, stated without the code *)

\* a value of the exact form "{X}"
BraceWrapped(v) == Len(v) >= 2 /\ v[1] = LBRACE /\ v[Len(v)] = RBRACE

\* the X of "{X}"
Inner(v) == [i \in 1..(Len(v) - 2) |-> v[i + 1]]

\* id k of raw map m is an alias
AliasIn(m, k) == k \in DOMAIN m /\ BraceWrapped(m[k])

\* the id reached from k after n alias steps (fewer when the chain ends)
RECURSIVE Follow(_, _, _)
Follow(m, k, n) ==
    IF n = 0 \/ ~AliasIn(m, k) THEN k ELSE Follow(m, Inner(m[k]), n - 1)

\* the number of ids of m: no chain without a cycle has more alias steps
Size(m) == Cardinality(DOMAIN m)

\* k lies on an alias cycle: some number of alias steps leads back to it
OnCycle(m, k) == AliasIn(m, k) /\ \E n \in 1..Size(m) : Follow(m, k, n) = k

\* the ids on the cycle through k
CycleOf(m, k) == {Follow(m, k, n) : n \in 0..Size(m)}

\* the alias chain of k reaches a cycle: it has not ended after Size(m) steps
ReachesCycle(m, k) == AliasIn(m, Follow(m, k, Size(m)))

\* the last id of the chain of k, when the chain has no cycle
LastId(m, k) == Follow(m, k, Size(m))

\* the value the specification gives an id whose chain has no cycle
ChainValue(m, k) == IF LastId(m, k) \in DOMAIN m THEN m[LastId(m, k)] ELSE <<>>

\* m without the entries that lie on a cycle
WithoutCycles(m) == [k \in {x \in DOMAIN m : ~OnCycle(m, x)} |-> m[k]]

\* "[Cyclic alias: <id>]"
SentinelFor(k) ==
    <<91, 67, 121, 99, 108, 105, 99, 32, 97, 108, 105, 97, 115, 58, 32>> \o k \o <<93>>

\* C2: alias chains. Every id of the raw map whose alias chain has no cycle is
\* resolved, once the pass has returned (and from the moment it is cached), to
\* the raw value of the last id of its chain, or to the empty string when the
\* chain ends at an id the raw map does not hold.
C2_AliasChains ==
    \A k \in DOMAIN raw_map :
        ~ReachesCycle(raw_map, k) =>
            /\ pc = "loaded" => k \in DOMAIN resolved_map
            /\ k \in DOMAIN resolved_map => resolved_map[k] = ChainValue(raw_map, k)

\* the chain a -> b -> c -> "hi" has been resolved
C2_Witness ==
    /\ pc = "loaded"
    /\ DOMAIN raw_map = {<<97>>, <<98>>, <<99>>}
    /\ raw_map[<<97>>] = <<LBRACE, 98, RBRACE>>
    /\ raw_map[<<98>>] = <<LBRACE, 99, RBRACE>>
    /\ raw_map[<<99>>] = <<104, 105>>
    /\ resolved_map[<<97>>] = <<104, 105>>

\* C3: resolution order-independence. The eager pass run a second time over the
\* same raw map, its ids visited in another order, ends with the same resolved
\* map as the first.
C3_OrderIndependent ==
    (run = 2 /\ pc = "loaded") => resolved_map = ref

\* C4: cycle containment. After the pass every id on an alias cycle holds the
\* sentinel naming an id of its own cycle, and every id whose chain reaches no
\* cycle holds the value it has in the raw map without the cyclic entries.
C4_CycleContainment ==
    pc = "loaded" =>
        \A k \in DOMAIN raw_map :
            /\ OnCycle(raw_map, k) =>
                  /\ k \in DOMAIN resolved_map
                  /\ \E c \in CycleOf(raw_map, k) : resolved_map[k] = SentinelFor(c)
            /\ ~ReachesCycle(raw_map, k) =>
                  /\ k \in DOMAIN resolved_map
                  /\ resolved_map[k] = ChainValue(WithoutCycles(raw_map), k)

\* the cycle a -> b -> a beside the plain id c, all resolved
C4_Witness ==
    /\ pc = "loaded"
    /\ DOMAIN raw_map = {<<97>>, <<98>>, <<99>>}
    /\ raw_map[<<97>>] = <<LBRACE, 98, RBRACE>>
    /\ raw_map[<<98>>] = <<LBRACE, 97, RBRACE>>
    /\ raw_map[<<99>>] = <<104, 105>>
    /\ resolved_map[<<98>>] = SentinelFor(<<98>>)
    /\ resolved_map[<<99>>] = <<104, 105>>

\* a recursive call that does not return at once: a frame is pushed
Recurses == Len(stack') > Len(stack) /\ stack # <<>>

\* no id is twice among the active frames below the innermost one
NoRepeatBelowTop ==
    \A i, j \in 1..(Len(stack) - 1) : stack[i] = stack[j] => i = j

----------------------------------------------------------------------------
(* The decoder on hand-constructed buffers.  No key length of such a buffer *)
(* is zero, so the zero-skipping blocks (lines 210-221) have no part here.  *)

InitRoundTrip ==
    /\ \E es \in EncodingSeqs, padByte \in PadBytes, term \in Terminators :
          /\ DecoderAt(TRUE, EncodeBuffer(es, padByte, term), <<>>)
          /\ ref = [i \in 1..Len(es) |-> es[i].rec]
    /\ ResolverIdle
    /\ run = 1
    /\ SanitizerIdle
    /\ ClassifierIdle

NextRoundTrip ==
    \/ Start /\ UNCHANGED <<resVars, run, ref, sanVars, dictVars>>
    \/ LoopTest /\ UNCHANGED <<resVars, run, ref, sanVars, dictVars>>
    \/ ReadKeyLen /\ UNCHANGED <<resVars, run, ref, sanVars, dictVars>>
    \/ ReadKey /\ UNCHANGED <<resVars, run, ref, sanVars, dictVars>>
    \/ ReadCount /\ UNCHANGED <<resVars, run, ref, sanVars, dictVars>>
    \/ ReadField /\ UNCHANGED <<resVars, run, ref, sanVars, dictVars>>
    \/ EndRecord /\ UNCHANGED <<resVars, run, ref, sanVars, dictVars>>
    \/ Finish /\ UNCHANGED <<resVars, run, ref, sanVars, dictVars>>

SpecRoundTrip == InitRoundTrip /\ [][NextRoundTrip]_vars

----------------------------------------------------------------------------
(* The decoder run with exclusion patterns, then again on the same buffer  *)
(* with none                                                               *)

\* the patterns "ab", "a" and "b"
PatternPool == {<<97, 98>>, <<97>>, <<98>>}

\* number of exclusion patterns
MaxPatterns == 2

PatternLists == UNION {[1..n -> PatternPool] : n \in 0..MaxPatterns}

InitExclude ==
    /\ \E es \in EncodingSeqs, pats \in PatternLists :
          DecoderAt(TRUE, EncodeBuffer(es, 0, 0), pats)
    /\ ResolverIdle
    /\ run = 1
    /\ SanitizerIdle
    /\ ClassifierIdle
    /\ ref = <<>>

\* the first run has returned; the same file is decoded with no patterns
DecodeAgain ==
    /\ pc = "done"
    /\ run = 1
    /\ run' = 2
    /\ ref' = [records |-> records, offsets |-> offsets, patterns |-> filter_patterns]
    /\ filter_patterns' = <<>>
    /\ pc' = "start"
    /\ pos' = 0
    /\ pos0' = 0
    /\ key_len' = 0
    /\ key' = <<>>
    /\ fields_count' = 0
    /\ fields' = <<>>
    /\ nfield' = 0
    /\ records' = <<>>
    /\ outcome' = "running"
    /\ offsets' = <<>>
    /\ UNCHANGED <<exists, data, resVars, sanVars, dictVars>>

NextExclude ==
    \/ Start /\ UNCHANGED <<resVars, run, ref, sanVars, dictVars>>
    \/ LoopTest /\ UNCHANGED <<resVars, run, ref, sanVars, dictVars>>
    \/ ReadKeyLen /\ UNCHANGED <<resVars, run, ref, sanVars, dictVars>>
    \/ ReadKey /\ UNCHANGED <<resVars, run, ref, sanVars, dictVars>>
    \/ ReadCount /\ UNCHANGED <<resVars, run, ref, sanVars, dictVars>>
    \/ ReadField /\ UNCHANGED <<resVars, run, ref, sanVars, dictVars>>
    \/ EndRecord /\ UNCHANGED <<resVars, run, ref, sanVars, dictVars>>
    \/ Finish /\ UNCHANGED <<resVars, run, ref, sanVars, dictVars>>
    \/ DecodeAgain

SpecExclude == InitExclude /\ [][NextExclude]_vars

----------------------------------------------------------------------------
(* main, lines 857-886: the decoder, the CSV file, the resolved map *)

\* the records of the pipeline's buffers: the keys "a", "b" and "a" CR "b";
\* no field, the alias "{b}", the text "x"
PipelineEncodings ==
    {[rec |-> Rec(k, fs), viaSentinel |-> TRUE] :
        k \in {<<97>>, <<98>>, <<97, CR, 98>>},
        fs \in {<<>>, <<<<LBRACE, 98, RBRACE>>>>, <<<<120>>>>}}

PipelineBuffers ==
    {EncodeBuffer(es, 0, 0) :
        es \in UNION {[1..n -> PipelineEncodings] : n \in 0..MaxRecords}}

InitPipeline ==
    /\ \E buf \in PipelineBuffers \cup TruncatedBuffers \cup AdversarialBuffers :
          DecoderAt(TRUE, buf, <<>>)
    /\ ResolverIdle
    /\ run = 1
    /\ SanitizerIdle
    /\ ClassifierIdle
    /\ ref = <<>>

NextPipeline ==
    \/ Start /\ UNCHANGED <<resVars, run, ref, sanVars, dictVars>>
    \/ LoopTest /\ UNCHANGED <<resVars, run, ref, sanVars, dictVars>>
    \/ ReadKeyLen /\ UNCHANGED <<resVars, run, ref, sanVars, dictVars>>
    \/ SkipZero /\ UNCHANGED <<resVars, run, ref, sanVars, dictVars>>
    \/ ZerosEnd /\ UNCHANGED <<resVars, run, ref, sanVars, dictVars>>
    \/ ReadKey /\ UNCHANGED <<resVars, run, ref, sanVars, dictVars>>
    \/ ReadCount /\ UNCHANGED <<resVars, run, ref, sanVars, dictVars>>
    \/ ReadField /\ UNCHANGED <<resVars, run, ref, sanVars, dictVars>>
    \/ EndRecord /\ UNCHANGED <<resVars, run, ref, sanVars, dictVars>>
    \/ Finish /\ UNCHANGED <<resVars, run, ref, sanVars, dictVars>>
    \/ write_i2_csv /\ UNCHANGED <<run, ref, sanVars, dictVars>>
    \/ ReadCsv /\ UNCHANGED <<run, ref, sanVars, dictVars>>
    \/ ResolveNext
    \/ ResolveEnter
    \/ ResolveLeave
    \/ ResolveDone

SpecPipeline == InitPipeline /\ [][NextPipeline]_vars

----------------------------------------------------------------------------
(* The decoder's claims *)

\* a <= b in the case-sensitive lexicographic order of the specification
LexLeq(a, b) ==
    \/ /\ Len(a) <= Len(b)
       /\ \A i \in 1..Len(a) : a[i] = b[i]
    \/ \E i \in 1..Len(a) :
          /\ i <= Len(b)
          /\ a[i] < b[i]
          /\ \A j \in 1..(i - 1) : a[j] = b[j]

\* out holds exactly the records of inp, each once
SameRecords(out, inp) ==
    /\ Len(out) = Len(inp)
    /\ \E f \in Perms(1..Len(inp)) : \A i \in 1..Len(inp) : out[i] = inp[f[i]]

OrderedByKey(out) ==
    \A i, j \in 1..Len(out) : i < j => LexLeq(out[i].key, out[j].key)

\* C1: decoder round-trip. The decoder, given the encoding of a list of records
\* and no exclusion pattern, returns exactly those records, each with its fields
\* in their order, ordered by key.
C1_RoundTrip ==
    pc = "done" =>
        /\ outcome = "returned"
        /\ SameRecords(records, ref)
        /\ OrderedByKey(records)

\* ("b", ["", "{b}e"]) encoded before ("ab", ["A"]) comes back after it
C1_Witness ==
    /\ pc = "done"
    /\ Len(ref) = 2
    /\ ref[1] = Rec(<<98>>, <<<<>>, <<LBRACE, 98, RBRACE, 233>>>>)
    /\ ref[2] = Rec(<<97, 98>>, <<<<65>>>>)
    /\ records = <<ref[2], ref[1]>>

\* an iteration of the record loop ends in this step: by break, or by
\* reaching the end of the loop body
IterationEnds ==
    /\ pc \in {"loop", "keylen", "zeros", "key", "count", "field"}
    /\ pc = "loop" => pos < Len(data)
    /\ pc' \in {"loop", "sort"}

\* the iteration that ends in this step has read a key length
ReadAKeyLength == pc # "loop"

\* the read offset never decreases
OffsetMonotone == [][pos' >= pos]_vars

\* the bytes not yet passed, a word past the end of the buffer included
Remaining ==
    IF pos >= Len(data) + WordLen THEN 0 ELSE Len(data) + WordLen - pos

\* the blocks of the loop body, later ones lower; the loop test below the last
Rank ==
    CASE pc = "start" -> 9
      [] pc = "field" -> 8
      [] pc = "loop" -> 7
      [] pc = "keylen" -> 6
      [] pc = "zeros" -> 5
      [] pc = "key" -> 4
      [] pc = "count" -> 3
      [] pc = "sort" -> 1
      [] pc = "done" -> 0

\* a natural number that every step of the decoder lowers
Variant == 8 * Remaining + Rank

\* the guard of some block of the decoder holds
CanStep ==
    \/ pc \in {"start", "loop", "keylen", "key", "count", "sort"}
    \/ pc = "zeros" /\ (MoreZeros \/ ~MoreZeros)
    \/ pc = "field" /\ (MoreFields \/ ~MoreFields)

\* every step lowers the variant and no state short of the return is stuck:
\* the decoder returns after at most Variant steps
Terminates ==
    /\ [][Variant' < Variant]_vars
    /\ [](pc # "done" => CanStep)

\* C6 as claimed: the decode loop terminates, the read offset never decreases,
\* and it strictly increases on every iteration of the record loop.
C6_Original ==
    /\ Terminates
    /\ OffsetMonotone
    /\ [][IterationEnds => pos' > pos0']_vars

\* C6, amended: decoder termination. The decode loop terminates, the read
\* offset never decreases, and it strictly increases on every iteration of the
\* record loop that reads a key length, that is, on every iteration but one
\* that stops at the first bounds check.
C6_DecoderTerminates ==
    /\ Terminates
    /\ OffsetMonotone
    /\ [][(IterationEnds /\ ReadAKeyLength) => pos' > pos0']_vars

\* the decoder has returned from a buffer of four zero words after the header,
\* the zero scan having run to the end of the buffer
C6_Witness ==
    /\ pc = "done"
    /\ data = Header \o Zeros(4 * WordLen)
    /\ pos = Len(data)
    /\ pos0 = HeaderLen

\* C7: full coverage of the resolved map. Building the resolved map from the
\* records the decoder emitted ends without error, and the map then has an
\* entry for every emitted key.
C7_FullCoverage ==
    pc \in {"failed", "loaded"} =>
        /\ pc = "loaded"
        /\ \A i \in 1..Len(records) : records[i].key \in DOMAIN resolved_map

\* some pattern of pats, a literal text, matches the whole of key k
FullyMatched(pats, k) == \E i \in 1..Len(pats) : pats[i] = k

\* rs without the records whose key is excluded by pats
WithoutExcluded(rs, pats) ==
    LET Kept(r) == ~FullyMatched(pats, r.key) IN SelectSeq(rs, Kept)

\* C8: exclusion does not disturb parsing. The decoder given patterns makes the
\* same reads as the decoder given none, and its output is the output of the
\* latter without the records whose key is excluded.
C8_ExclusionFrame ==
    (run = 2 /\ pc = "done") =>
        /\ ref.offsets = offsets
        /\ ref.records = WithoutExcluded(records, ref.patterns)

\* C9: exclusion is a full match. A decoded record is dropped if and only if a
\* pattern matches its entire key.
C9_FullMatch ==
    [][(pc = "field" /\ pc' = "loop") =>
          ((records' = records) <=> FullyMatched(filter_patterns, key))]_vars

\* a read of one of the 4-byte length words
LengthReads == {"key_len", "count", "field_len"}

\* C10: truncation is never fatal. Once the file has been read no exception is
\* raised and the decoder returns; no length word is read unless four bytes are
\* there for it, nothing is read past the end of the buffer, and a return is
\* with a record list.
C10_NeverFatal ==
    exists =>
        /\ outcome \in {"running", "returned"}
        /\ pc = "done" => outcome = "returned"
        /\ pc \in {"keylen", "count"} => pos + WordLen <= Len(data)
        /\ \A i \in 1..Len(offsets) :
              /\ offsets[i].at <= Len(data)
              /\ offsets[i].kind \in LengthReads =>
                    offsets[i].at + WordLen <= Len(data)
        /\ records \in Seq([key : Seq(Nat), fields : Seq(Seq(Nat))])

\* the decoder has returned the record whose field, not UTF-8, was decoded as
\* Latin-1, from the buffer cut inside the terminator
C10_Witness ==
    /\ exists
    /\ pc = "done"
    /\ outcome = "returned"
    /\ Len(data) = HeaderLen + 5 * WordLen + 2
    /\ records = <<Rec(<<107>>, <<<<255, BACKSLASH, 110>>>>)>>

\* C11: empty input is an explicit failure. Once the file has been read, a
\* buffer no longer than the header makes the decoder fail, and every other
\* buffer, however malformed, makes it return a record list.
C11_EmptyInputFails ==
    (exists /\ pc = "done") =>
        IF Len(data) <= HeaderLen
        THEN outcome # "returned"
        ELSE outcome = "returned"

----------------------------------------------------------------------------
(* sanitize_text on its own *)

\* length of a generated text
MaxLen == 4

\* the characters of the generated texts: "a", CR, LF and the space
SanitizeChars == {97, CR, LF, 32}

\* "a" CR LF "b" CR "c" LF " "
SanitizeExample == <<97, CR, LF, 98, CR, 99, LF, 32>>

SanitizeInputs ==
    UNION {[1..n -> SanitizeChars] : n \in 0..MaxLen} \cup {SanitizeExample}

InitSanitize ==
    /\ DecoderIdle
    /\ ResolverIdle
    /\ ClassifierIdle
    /\ pc = "call"
    /\ input \in SanitizeInputs
    /\ sanitized = <<>>
    /\ run = 1
    /\ ref = <<>>

\* lines 177-181: a call of sanitize_text(input)
Sanitize ==
    /\ pc = "call"
    /\ sanitized' = sanitize_text(input)
    /\ pc' = "sanitized"
    /\ UNCHANGED <<decVarsButPc, resVars, run, ref, input, dictVars>>

NextSanitize == Sanitize

SpecSanitize == InitSanitize /\ [][NextSanitize]_vars

\* a line break of the input: a CR LF counts once
RECURSIVE LineBreaks(_)
LineBreaks(t) ==
    IF t = <<>> THEN 0
    ELSE IF Len(t) >= 2 /\ t[1] = CR /\ t[2] = LF THEN 1 + LineBreaks(Tail(Tail(t)))
    ELSE IF t[1] \in {CR, LF} THEN 1 + LineBreaks(Tail(t))
    ELSE LineBreaks(Tail(t))

\* the escapes backslash "n" of a text
Escapes(t) == Cardinality({i \in 1..(Len(t) - 1) : t[i] = BACKSLASH /\ t[i + 1] = 110})

\* the whitespace of the specification: the blank and the control characters
Blank(c) == c \in {9, 10, 11, 12, 13, 32}

\* what the specification says of every input: no real line break is left, no
\* whitespace leads or trails, and each line break of the input has become one
\* escape (a CR LF giving one, not two)
Sanitized ==
    /\ \A i \in 1..Len(sanitized) : sanitized[i] \notin {CR, LF}
    /\ sanitized # <<>> =>
          ~Blank(sanitized[1]) /\ ~Blank(sanitized[Len(sanitized)])
    /\ Escapes(sanitized) = LineBreaks(input)

\* C12 as claimed: sanitization, and the input a CR LF b CR c LF space gives
\* exactly the seven characters a \ n b \ n c, with no trailing escape.
C12_Original ==
    pc = "sanitized" =>
        /\ Sanitized
        /\ input = SanitizeExample =>
              sanitized = <<97, BACKSLASH, 110, 98, BACKSLASH, 110, 99>>

\* C12, amended: sanitization. The result holds no real line break and no
\* leading or trailing whitespace, it has one escape for each line break of the
\* input, and the input a CR LF b CR c LF space gives exactly the nine
\* characters a \ n b \ n c \ n: the space is trimmed, the escape of the last
\* LF is kept.
C12_Sanitization ==
    pc = "sanitized" =>
        /\ Sanitized
        /\ input = SanitizeExample =>
              sanitized = <<97, BACKSLASH, 110, 98, BACKSLASH, 110, 99, BACKSLASH, 110>>

\* the example has been sanitized
C12_Witness ==
    /\ pc = "sanitized"
    /\ input = SanitizeExample
    /\ Len(sanitized) = 9

----------------------------------------------------------------------------
(* build_dictionaries: the classifier of the resolved map *)

\* "weapon/"
WEAPON == <<119, 101, 97, 112, 111, 110, 47>>
\* "Buff_name_"
BUFF_NAME == <<66, 117, 102, 102, 95, 110, 97, 109, 101, 95>>
\* "Buff_info_"
BUFF_INFO == <<66, 117, 102, 102, 95, 105, 110, 102, 111, 95>>
\* "task/"
TASK == <<116, 97, 115, 107, 47>>
\* "_title"
TITLE == <<95, 116, 105, 116, 108, 101>>
\* "_desc"
DESC == <<95, 100, 101, 115, 99>>
\* "material_"
MATERIAL == <<109, 97, 116, 101, 114, 105, 97, 108, 95>>
\* "plant_"
PLANT == <<112, 108, 97, 110, 116, 95>>
\* "Pet_name_"
PET_NAME == <<80, 101, 116, 95, 110, 97, 109, 101, 95>>
\* "_des"
DES == <<95, 100, 101, 115>>
\* "_lock"
LOCK == <<95, 108, 111, 99, 107>>
\* "Character"
CHARACTER == <<67, 104, 97, 114, 97, 99, 116, 101, 114>>
\* "_name_skin"
NAME_SKIN == <<95, 110, 97, 109, 101, 95, 115, 107, 105, 110>>

SLASH == 47
UNDERSCORE == 95

\* s[n:]
Drop(s, n) == SubSeq(s, n + 1, Len(s))

\* sub in s
contains(s, sub) == \E i \in 0..(Len(s) - Len(sub)) : SubSeq(s, i + 1, i + Len(sub)) = sub

\* \d of a str pattern: the decimal digits, of the code points below 2048
IsDigit(c) == c \in (48..57) \cup (1632..1641) \cup (1776..1785) \cup (1984..1993)

\* (\d+), greedy: the number of digits s begins with
DigitRun(s) ==
    CHOOSE n \in 0..Len(s) :
        /\ \A i \in 1..n : IsDigit(s[i])
        /\ n = Len(s) \/ ~IsDigit(s[n + 1])

\* ([^_]+), greedy: the number of characters s begins with that are not "_"
NoUnderscoreRun(s) ==
    CHOOSE n \in 0..Len(s) :
        /\ \A i \in 1..n : s[i] # UNDERSCORE
        /\ n = Len(s) \/ s[n + 1] = UNDERSCORE

\* line 508: re.match(r"task/([^_]+)(_title|_desc)?", rid), at the start of rid;
\* a suffix of <<>> is the group that did not take part (None)
TaskMatch(rid) ==
    LET rest == Drop(rid, Len(TASK))
        n == NoUnderscoreRun(rest)
        after == Drop(rest, n)
    IN  IF startswith(rid, TASK) /\ n > 0
        THEN [matched |-> TRUE,
              cid |-> SubSeq(rest, 1, n),
              suffix |-> IF startswith(after, TITLE) THEN TITLE
                         ELSE IF startswith(after, DESC) THEN DESC
                         ELSE <<>>]
        ELSE [matched |-> FALSE, cid |-> <<>>, suffix |-> <<>>]

\* line 533: re.match(r"Character(\d+)_name_skin(\d+)", rid), at the start of rid
CharacterMatch(rid) ==
    LET r1 == Drop(rid, Len(CHARACTER))
        n == DigitRun(r1)
        r2 == Drop(r1, n)
        r3 == Drop(r2, Len(NAME_SKIN))
        sn == DigitRun(r3)
    IN  IF /\ startswith(rid, CHARACTER)
           /\ n > 0
           /\ startswith(r2, NAME_SKIN)
           /\ sn > 0
        THEN [matched |-> TRUE,
              char_index |-> SubSeq(r1, 1, n),
              skin_index |-> SubSeq(r3, 1, sn)]
        ELSE [matched |-> FALSE, char_index |-> <<>>, skin_index |-> <<>>]

\* the entry keyed by what follows the prefix of ten characters
BuffEntry_byId(d, rid, eng) == Store(d, Drop(rid, Len(BUFF_NAME)), eng)

\* lines 503, 505: buff_names[rid] = eng, buff_infos[rid] = eng
BuffEntry(d, rid, eng) == Store(d, rid, eng)

\* line 536: characters.setdefault(char_index, {})[skin_index] = eng
SetSkin(chars, char_index, skin_index, eng) ==
    Store(chars, char_index,
          Store(IF char_index \in DOMAIN chars THEN chars[char_index] ELSE <<>>,
                skin_index, eng))

\* lines 486-498: load_language_map has returned lang_map, the resolved map;
\* the dictionaries are made, empty, and the loop over lang_map.items() begins
BuildStart ==
    /\ pc = "loaded"
    /\ items' = inserted
    /\ weapons_map' = <<>>
    /\ buff_names' = <<>>
    /\ buff_infos' = <<>>
    /\ challenge_names' = <<>>
    /\ challenge_titles' = <<>>
    /\ challenge_descs' = <<>>
    /\ materials' = <<>>
    /\ plant_ids' = <<>>
    /\ pets' = <<>>
    /\ characters' = <<>>
    /\ pc' = "classify"
    /\ UNCHANGED <<decVarsButPc, resVars, run, ref, sanVars>>

\* lines 498-536: one turn of the loop, for the item (rid, eng)
Classify ==
    /\ pc = "classify"
    /\ items # <<>>
    /\ items' = Tail(items)
    /\ LET rid == Head(items)
           eng == resolved_map[rid]
           t == TaskMatch(rid)
           c == CharacterMatch(rid)
       IN  IF startswith(rid, WEAPON)
           THEN /\ weapons_map' = Store(weapons_map, replace(rid, WEAPON, <<>>), eng)
                /\ UNCHANGED <<buff_names, buff_infos, challenge_names,
                               challenge_titles, challenge_descs, materials,
                               plant_ids, pets, characters>>
           ELSE IF startswith(rid, BUFF_NAME)
           THEN /\ buff_names' = BuffEntry(buff_names, rid, eng)
                /\ UNCHANGED <<weapons_map, buff_infos, challenge_names,
                               challenge_titles, challenge_descs, materials,
                               plant_ids, pets, characters>>
           ELSE IF startswith(rid, BUFF_INFO)
           THEN /\ buff_infos' = BuffEntry(buff_infos, rid, eng)
                /\ UNCHANGED <<weapons_map, buff_names, challenge_names,
                               challenge_titles, challenge_descs, materials,
                               plant_ids, pets, characters>>
           ELSE IF startswith(rid, TASK)
           THEN /\ challenge_titles' =
                      IF t.matched /\ t.suffix = TITLE
                      THEN Store(challenge_titles, t.cid, eng) ELSE challenge_titles
                /\ challenge_descs' =
                      IF t.matched /\ t.suffix = DESC
                      THEN Store(challenge_descs, t.cid, eng) ELSE challenge_descs
                /\ challenge_names' =
                      IF t.matched /\ t.suffix = <<>>
                      THEN Store(challenge_names, t.cid, eng) ELSE challenge_names
                /\ UNCHANGED <<weapons_map, buff_names, buff_infos, materials,
                               plant_ids, pets, characters>>
           ELSE IF startswith(rid, MATERIAL)
           THEN /\ materials' = Store(materials, rid, eng)
                /\ UNCHANGED <<weapons_map, buff_names, buff_infos,
                               challenge_names, challenge_titles, challenge_descs,
                               plant_ids, pets, characters>>
           ELSE IF startswith(rid, PLANT) /\ ~contains(rid, <<SLASH>>)
           THEN /\ plant_ids' = Store(plant_ids, rid, eng)
                /\ UNCHANGED <<weapons_map, buff_names, buff_infos,
                               challenge_names, challenge_titles, challenge_descs,
                               materials, pets, characters>>
           ELSE IF /\ startswith(rid, PET_NAME)
                   /\ ~endswith(rid, DES)
                   /\ ~endswith(rid, LOCK)
           THEN /\ pets' = Store(pets, rid, eng)
                /\ UNCHANGED <<weapons_map, buff_names, buff_infos,
                               challenge_names, challenge_titles, challenge_descs,
                               materials, plant_ids, characters>>
           ELSE /\ characters' =
                      IF c.matched
                      THEN SetSkin(characters, c.char_index, c.skin_index, eng)
                      ELSE characters
                /\ UNCHANGED <<weapons_map, buff_names, buff_infos,
                               challenge_names, challenge_titles, challenge_descs,
                               materials, plant_ids, pets>>
    /\ UNCHANGED <<decVars, resVars, run, ref, sanVars>>

\* lines 538-549: the loop is over, the dictionaries are returned
BuildDone ==
    /\ pc = "classify"
    /\ items = <<>>
    /\ pc' = "built"
    /\ UNCHANGED <<decVarsButPc, resVars, run, ref, sanVars, dictVars>>

\* number of rows of a language CSV
MaxKeys == 2

\* the ids of the rows
BuildKeys ==
    {WEAPON \o <<97>>, WEAPON \o WEAPON \o <<97>>,
     BUFF_NAME \o <<55>>, BUFF_INFO \o <<55>>,
     TASK \o <<98>>, TASK \o <<98>> \o TITLE,
     MATERIAL \o <<49>>, PLANT \o <<49>>,
     PET_NAME \o <<55>>, PET_NAME \o <<55>> \o DES,
     CHARACTER \o <<49>> \o NAME_SKIN \o <<50>>,
     CHARACTER \o <<49>> \o NAME_SKIN \o <<50>> \o DESC}

\* the English cells: the text "x" and an alias of the id "weapon/zz", which no
\* row has
BuildValues == {<<120>>, <<LBRACE>> \o WEAPON \o <<122, 122>> \o <<RBRACE>>}

\* the rows of a CSV file: id, English
BuildRows == {<<k, v>> : k \in BuildKeys, v \in BuildValues}

\* build_dictionaries(csv_path) about to read the file
InitBuild ==
    /\ DecoderIdle
    /\ \E rows \in UNION {[1..n -> BuildRows] : n \in 0..MaxKeys} : csv_rows = rows
    /\ raw_map = <<>>
    /\ resolved_map = <<>>
    /\ todo = <<>>
    /\ stack = <<>>
    /\ visited = {}
    /\ ret = <<>>
    /\ inserted = <<>>
    /\ pc = "written"
    /\ SanitizerIdle
    /\ ClassifierIdle
    /\ run = 1
    /\ ref = <<>>

NextBuild ==
    \/ ReadCsv /\ UNCHANGED <<run, ref, sanVars, dictVars>>
    \/ ResolveNext
    \/ ResolveEnter
    \/ ResolveLeave
    \/ ResolveDone
    \/ BuildStart
    \/ Classify
    \/ BuildDone

SpecBuild == InitBuild /\ [][NextBuild]_vars

----------------------------------------------------------------------------
(* The classifier's claims *)

\* key k has the form p followed by something
HasForm(k, p) == Len(k) >= Len(p) /\ \A i \in 1..Len(p) : k[i] = p[i]

\* what follows the leading p of k
Rest(k, p) == [i \in 1..(Len(k) - Len(p)) |-> k[i + Len(p)]]

\* "weapon/"
WeaponForm == <<119, 101, 97, 112, 111, 110, 47>>

\* C13: weapon classification. For every key "weapon/<rest>" of the resolved
\* map the weapons dictionary has the entry <rest>, the key without its leading
\* "weapon/" only, holding the key's resolved string.
C13_WeaponIds ==
    pc = "built" =>
        \A k \in DOMAIN resolved_map :
            HasForm(k, WeaponForm) =>
                /\ Rest(k, WeaponForm) \in DOMAIN weapons_map
                /\ weapons_map[Rest(k, WeaponForm)] = resolved_map[k]

\* the digit strings "1", "2", "12" and "22"
DigitStrings == {<<49>>, <<50>>, <<49, 50>>, <<50, 50>>}

\* "Character<N>_name_skin<S>"
CharacterKey(N, S) ==
    <<67, 104, 97, 114, 97, 99, 116, 101, 114>> \o N
    \o <<95, 110, 97, 109, 101, 95, 115, 107, 105, 110>> \o S

\* characters[N][S] is present
HasSkin(N, S) == N \in DOMAIN characters /\ S \in DOMAIN characters[N]

\* C14: character classification. characters[N][S] is present exactly when the
\* resolved map has the key "Character<N>_name_skin<S>", and then holds that
\* key's resolved string.
C14_Characters ==
    pc = "built" =>
        \A N \in DigitStrings, S \in DigitStrings :
            /\ HasSkin(N, S) <=> CharacterKey(N, S) \in DOMAIN resolved_map
            /\ HasSkin(N, S) => characters[N][S] = resolved_map[CharacterKey(N, S)]

\* "Buff_name_" and "Buff_info_"
BuffNameForm == <<66, 117, 102, 102, 95, 110, 97, 109, 101, 95>>
BuffInfoForm == <<66, 117, 102, 102, 95, 105, 110, 102, 111, 95>>

\* dictionary d has, for every key of the resolved map of the form p, an entry
\* under Id(key) holding the key's resolved string
BuffsKeyedBy(d, p, Id(_)) ==
    \A k \in DOMAIN resolved_map :
        HasForm(k, p) => (Id(k) \in DOMAIN d /\ d[Id(k)] = resolved_map[k])

\* C15 as claimed: buff classification. The buff dictionaries are keyed by the
\* extracted id, the part of the key after the prefix.
C15_Original ==
    pc = "built" =>
        LET NameId(k) == Rest(k, BuffNameForm)
            InfoId(k) == Rest(k, BuffInfoForm)
        IN  /\ BuffsKeyedBy(buff_names, BuffNameForm, NameId)
            /\ BuffsKeyedBy(buff_infos, BuffInfoForm, InfoId)

\* C15, amended: buff classification. The buff dictionaries are keyed by the
\* whole key "Buff_name_<id>" or "Buff_info_<id>", as materials, plants and pets
\* are, and hold the key's resolved string; they have no other entry.
C15_BuffsByWholeKey ==
    pc = "built" =>
        LET Whole(k) == k
        IN  /\ BuffsKeyedBy(buff_names, BuffNameForm, Whole)
            /\ BuffsKeyedBy(buff_infos, BuffInfoForm, Whole)
            /\ \A k \in DOMAIN buff_names :
                  k \in DOMAIN resolved_map /\ HasForm(k, BuffNameForm)
            /\ \A k \in DOMAIN buff_infos :
                  k \in DOMAIN resolved_map /\ HasForm(k, BuffInfoForm)

\* the dictionaries have been built from the rows Buff_name_7 and Buff_info_7
C15_Witness ==
    /\ pc = "built"
    /\ DOMAIN buff_names = {BuffNameForm \o <<55>>}
    /\ DOMAIN buff_infos = {BuffInfoForm \o <<55>>}

\* C17: no invented ids. The resolved map that load_language_map returns has
\* the keys of the raw map and no other, and every entry of the weapons
\* dictionary built from it comes from a key of the raw map.
C17_NoInventedIds ==
    /\ pc \in {"loaded", "classify", "built"} => DOMAIN resolved_map = DOMAIN raw_map
    /\ pc = "built" =>
          \A id \in DOMAIN weapons_map :
              \E k \in DOMAIN raw_map : HasForm(k, WeaponForm)

----------------------------------------------------------------------------
(* The decoder on a well-formed buffer, then on a prefix of it.  No key    *)
(* length read from such a buffer or from its prefix is zero, so the       *)
(* zero-skipping blocks (lines 210-221) have no part here.                 *)

InitTruncate ==
    /\ \E es \in EncodingSeqs : DecoderAt(TRUE, EncodeBuffer(es, 0, 0), <<>>)
    /\ ResolverIdle
    /\ run = 1
    /\ SanitizerIdle
    /\ ClassifierIdle
    /\ ref = <<>>

\* the first run has returned; the file cut at a byte offset past the header
\* is decoded
DecodeTruncated ==
    /\ pc = "done"
    /\ run = 1
    /\ run' = 2
    /\ ref' = records
    /\ \E n \in HeaderLen..(Len(data) - 1) : data' = SubSeq(data, 1, n)
    /\ pc' = "start"
    /\ pos' = 0
    /\ pos0' = 0
    /\ key_len' = 0
    /\ key' = <<>>
    /\ fields_count' = 0
    /\ fields' = <<>>
    /\ nfield' = 0
    /\ records' = <<>>
    /\ outcome' = "running"
    /\ offsets' = <<>>
    /\ UNCHANGED <<exists, filter_patterns, resVars, sanVars, dictVars>>

NextTruncate ==
    \/ Start /\ UNCHANGED <<resVars, run, ref, sanVars, dictVars>>
    \/ LoopTest /\ UNCHANGED <<resVars, run, ref, sanVars, dictVars>>
    \/ ReadKeyLen /\ UNCHANGED <<resVars, run, ref, sanVars, dictVars>>
    \/ ReadKey /\ UNCHANGED <<resVars, run, ref, sanVars, dictVars>>
    \/ ReadCount /\ UNCHANGED <<resVars, run, ref, sanVars, dictVars>>
    \/ ReadField /\ UNCHANGED <<resVars, run, ref, sanVars, dictVars>>
    \/ EndRecord /\ UNCHANGED <<resVars, run, ref, sanVars, dictVars>>
    \/ Finish /\ UNCHANGED <<resVars, run, ref, sanVars, dictVars>>
    \/ DecodeTruncated

SpecTruncate == InitTruncate /\ [][NextTruncate]_vars

\* C16: truncation yields only genuine records. Every record in the decode of
\* a prefix of a well-formed buffer is a record of the decode of the whole
\* buffer, with the same key and the same complete field list.
C16_GenuineRecords ==
    (run = 2 /\ pc = "done") =>
        \A i \in 1..Len(records) : \E j \in 1..Len(ref) : records[i] = ref[j]

====
